---- MODULE Spec2Model ----
(***************************************************************************)
(* Model of the price-oracle enclave server, src/enclave_rust/src/main.rs: *)
(* process start-up (argument check, key loading, listener), the three     *)
(* request handlers, and the signing pipeline (quantize, BCS encode,       *)
(* digest, sign, hex).                                                     *)
(*                                                                         *)
(* Number representations.  TLC integers are 32 bits wide, so              *)
(*   - a u64 is four 16-bit words, least significant word first;           *)
(*   - an f64 is its IEEE-754 bit pattern, held as such a u64;             *)
(*   - exact arithmetic on significands uses little-endian base-256        *)
(*     digit sequences ("Big" numbers) of any length.                      *)
(***************************************************************************)
EXTENDS Integers, Sequences, FiniteSets, TLC

(***************************************************************************)
(* Exact natural-number arithmetic on base-256 digit sequences.            *)
(***************************************************************************)
Pow2(n) == CASE n = 0 -> 1 [] n = 1 -> 2 [] n = 2 -> 4 [] n = 3 -> 8
             [] n = 4 -> 16 [] n = 5 -> 32 [] n = 6 -> 64 [] n = 7 -> 128
             [] n = 8 -> 256

Dig(a, i) == IF i >= 1 /\ i <= Len(a) THEN a[i] ELSE 0

RECURSIVE Norm(_)
Norm(a) == IF a = <<>> THEN <<>>
           ELSE IF a[Len(a)] = 0 THEN Norm(SubSeq(a, 1, Len(a) - 1))
           ELSE a

RECURSIVE AddCarry(_, _, _, _)
AddCarry(a, b, i, c) ==
    IF i > Len(a) /\ i > Len(b)
    THEN (IF c = 0 THEN <<>> ELSE <<c>>)
    ELSE LET s == Dig(a, i) + Dig(b, i) + c
         IN  <<s % 256>> \o AddCarry(a, b, i + 1, s \div 256)

AddBig(a, b) == AddCarry(a, b, 1, 0)

RECURSIVE MulDigit(_, _, _, _)
MulDigit(a, d, i, c) ==
    IF i > Len(a)
    THEN (IF c = 0 THEN <<>> ELSE <<c>>)
    ELSE LET s == a[i] * d + c
         IN  <<s % 256>> \o MulDigit(a, d, i + 1, s \div 256)

RECURSIVE MulFrom(_, _, _)
MulFrom(a, b, j) ==
    IF j > Len(b) THEN <<>>
    ELSE IF b[j] = 0 THEN <<0>> \o MulFrom(a, b, j + 1)
    ELSE AddBig(MulDigit(a, b[j], 1, 0), <<0>> \o MulFrom(a, b, j + 1))

MulBig(a, b) == Norm(MulFrom(a, b, 1))

\* floor(a / 2^s)
ShrBig(a, s) ==
    LET q == s \div 8
        r == s % 8
        n == Len(a) - q
    IN  IF n <= 0 THEN <<>>
        ELSE Norm([i \in 1..n |->
                     (Dig(a, i + q) \div Pow2(r)
                        + (Dig(a, i + q + 1) % Pow2(r)) * Pow2(8 - r)) % 256])

\* a * 2^s
ShlBig(a, s) ==
    LET q == s \div 8
        r == s % 8
        n == Len(a) + q + 1
    IN  Norm([i \in 1..n |->
                IF i <= q THEN 0
                ELSE ((Dig(a, i - q) * Pow2(r)) % 256)
                       + (Dig(a, i - q - 1) \div Pow2(8 - r))])

BitLenDigit(d) == CASE d >= 128 -> 8 [] d >= 64 -> 7 [] d >= 32 -> 6
                    [] d >= 16 -> 5 [] d >= 8 -> 4 [] d >= 4 -> 3
                    [] d >= 2 -> 2 [] d >= 1 -> 1 [] OTHER -> 0

\* number of significant bits of a (0 for zero)
BitLenBig(a) ==
    LET n == Norm(a)
    IN  IF n = <<>> THEN 0 ELSE 8 * (Len(n) - 1) + BitLenDigit(n[Len(n)])

\* bit i of a, bit 0 the least significant
BitBig(a, i) == (Dig(a, i \div 8 + 1) \div Pow2(i % 8)) % 2

\* a mod 2^n = 0
LowBitsZero(a, n) ==
    /\ \A i \in 1..(n \div 8) : Dig(a, i) = 0
    /\ Dig(a, n \div 8 + 1) % Pow2(n % 8) = 0

IsZeroBig(a) == Norm(a) = <<>>

(***************************************************************************)
(* u64 values: four 16-bit words, least significant first.                 *)
(***************************************************************************)
U64Zero == <<0, 0, 0, 0>>
U64Max  == <<65535, 65535, 65535, 65535>>

\* a < 2^64 as a u64
BigToWords(a) == [k \in 1..4 |-> Dig(a, 2 * k - 1) + 256 * Dig(a, 2 * k)]

(***************************************************************************)
(* f64 values (IEEE-754 binary64) and the arithmetic of                    *)
(* `(price_usd * 1_000_000.0) as u64`, main.rs line 121.                    *)
(* An unpacked f64 is [cls, neg, sig, e]: for cls = "fin" its value is     *)
(* (-1)^neg * sig * 2^e, sig a Big number.                                 *)
(***************************************************************************)
F64Unpack(w) ==
    LET neg  == w[4] \div 32768 = 1
        bexp == (w[4] % 32768) \div 16
        frac == <<w[1] % 256, w[1] \div 256, w[2] % 256, w[2] \div 256,
                  w[3] % 256, w[3] \div 256, w[4] % 16>>
    IN  IF bexp = 2047
        THEN [cls |-> IF IsZeroBig(frac) THEN "inf" ELSE "nan",
              neg |-> neg, sig |-> <<>>, e |-> 0]
        ELSE IF bexp = 0
        THEN [cls |-> "fin", neg |-> neg, sig |-> Norm(frac), e |-> -1074]
        ELSE [cls |-> "fin", neg |-> neg,
              sig |-> [frac EXCEPT ![7] = @ + 16], e |-> bexp - 1075]

\* round-to-nearest, ties-to-even, of sig * 2^e to a binary64 value
F64Round(neg, sig, e) ==
    LET L     == BitLenBig(sig)
        drop  == IF L - 53 > -1074 - e THEN L - 53 ELSE -1074 - e
        q     == ShrBig(sig, drop)
        up    == /\ BitBig(sig, drop - 1) = 1
                 /\ (~LowBitsZero(sig, drop - 1) \/ BitBig(q, 0) = 1)
        kept  == IF drop <= 0 THEN Norm(sig)
                 ELSE IF up THEN AddBig(q, <<1>>) ELSE q
        ke    == IF drop <= 0 THEN e ELSE e + drop
    IN  IF BitLenBig(kept) + ke > 1024
        THEN [cls |-> "inf", neg |-> neg, sig |-> <<>>, e |-> 0]
        ELSE [cls |-> "fin", neg |-> neg, sig |-> kept, e |-> ke]

F64Mul(x, y) ==
    LET neg == x.neg # y.neg
    IN  IF \/ x.cls = "nan" \/ y.cls = "nan"
           \/ (x.cls = "inf" /\ y.cls = "fin" /\ IsZeroBig(y.sig))
           \/ (y.cls = "inf" /\ x.cls = "fin" /\ IsZeroBig(x.sig))
        THEN [cls |-> "nan", neg |-> neg, sig |-> <<>>, e |-> 0]
        ELSE IF x.cls = "inf" \/ y.cls = "inf"
        THEN [cls |-> "inf", neg |-> neg, sig |-> <<>>, e |-> 0]
        ELSE F64Round(neg, MulBig(x.sig, y.sig), x.e + y.e)

\* Rust's `as u64` on an f64: truncates toward zero, saturates, NaN gives 0
F64AsU64(x) ==
    IF x.cls = "nan" THEN U64Zero
    ELSE IF x.neg THEN U64Zero
    ELSE IF x.cls = "inf" THEN U64Max
    ELSE IF x.e >= 0
    THEN (IF BitLenBig(x.sig) + x.e > 64 THEN U64Max
          ELSE BigToWords(ShlBig(x.sig, x.e)))
    ELSE BigToWords(ShrBig(x.sig, -x.e))

\* 1_000_000.0 = 0x412E848000000000
MICRO_SCALE == <<0, 0, 33920, 16686>>

\* let price = (price_usd * 1_000_000.0) as u64;
Quantize(price_usd) == F64AsU64(F64Mul(F64Unpack(price_usd), F64Unpack(MICRO_SCALE)))

(***************************************************************************)
(* Result values: Ok(v) and Err(e) of Rust's Result.                       *)
(***************************************************************************)
Ok(v)  == [ok |-> TRUE, val |-> v]
Err(e) == [ok |-> FALSE, val |-> e]

(***************************************************************************)
(* BCS serialization of IntentMessage<PriceUpdatePayload>, lines 17-29     *)
(* and 94: fields in declaration order, u8 as one byte, u64 as eight       *)
(* bytes, least significant byte first.                                    *)
(***************************************************************************)
BcsU8(v) == <<v>>

\* a u64 field serialized as if it were a u32
BcsU32(w) == [i \in 1..4 |-> IF i % 2 = 1 THEN w[(i + 1) \div 2] % 256
                                           ELSE w[i \div 2] \div 256]

BcsU64(w) == [i \in 1..8 |-> IF i % 2 = 1 THEN w[(i + 1) \div 2] % 256
                                           ELSE w[i \div 2] \div 256]

PriceUpdatePayload(price) == [price |-> price]

IntentMessage(intent, timestamp_ms, data) ==
    [intent |-> intent, timestamp_ms |-> timestamp_ms, data |-> data]

BcsPayload(d) == BcsU64(d.price)

BcsToBytes(m) == Ok(BcsU8(m.intent) \o BcsU64(m.timestamp_ms) \o BcsPayload(m.data))

(***************************************************************************)
(* hex::encode: two lower-case hex digits per byte, high nibble first.     *)
(***************************************************************************)
HexDigits == <<"0", "1", "2", "3", "4", "5", "6", "7",
               "8", "9", "a", "b", "c", "d", "e", "f">>

HexEncode(bytes) ==
    [i \in 1..(2 * Len(bytes)) |->
        IF i % 2 = 1 THEN HexDigits[(bytes[(i + 1) \div 2] \div 16) + 1]
                     ELSE HexDigits[(bytes[i \div 2] % 16) + 1]]

(***************************************************************************)
(* The cryptographic libraries (sha2, secp256k1) are outside the           *)
(* repository.  They are modelled by stand-ins that keep what the calls    *)
(* in main.rs rely on: a digest of DigestLen bytes that differs for        *)
(* different messages of the model; a secret key that is valid iff it is   *)
(* KeyLen bytes with 0 < value < group order; a public key determined by   *)
(* the secret key; a 64-byte compact signature determined by digest and    *)
(* key, which verifies only under that key's public key and that digest.   *)
(***************************************************************************)
DigestLen == 32
KeyLen == 32

\* Sha256::digest(&message_bytes)
Sha256Digest(bytes) ==
    [i \in 1..DigestLen |-> IF i <= Len(bytes) THEN (bytes[i] + i) % 256
                                               ELSE (Len(bytes) + i) % 256]

\* Message::from_digest_slice(&hash)
MessageFromDigestSlice(hash) ==
    IF Len(hash) # DigestLen THEN Err("InvalidMessage") ELSE Ok(hash)

\* the order of the secp256k1 group, big-endian
CURVE_ORDER == <<255, 255, 255, 255, 255, 255, 255, 255,
                 255, 255, 255, 255, 255, 255, 255, 254,
                 186, 174, 220, 230, 175, 72, 160, 59,
                 191, 210, 94, 140, 208, 54, 65, 65>>

\* a < b for big-endian byte strings of equal length
LessBE(a, b) ==
    \E i \in 1..Len(a) : a[i] < b[i] /\ \A j \in 1..(i - 1) : a[j] = b[j]

\* SecretKey::from_slice(&key_bytes)
SecretKeyFromSlice(bytes) ==
    IF Len(bytes) # KeyLen THEN Err("InvalidSecretKey")
    ELSE IF (\A i \in 1..KeyLen : bytes[i] = 0) \/ ~LessBE(bytes, CURVE_ORDER)
    THEN Err("InvalidSecretKey")
    ELSE Ok(bytes)

\* PublicKey::from_secret_key(&secp, &signing_key)
PublicKeyFromSecret(sk) == [i \in 1..KeyLen |-> (3 * sk[i] + 7) % 256]

\* public_key.serialize(): the 33-byte compressed form
PublicKeySerialize(pk) == <<2 + (pk[KeyLen] % 2)>> \o pk

\* secp.sign_ecdsa(&message, signing_key)
SignEcdsa(message, sk) ==
    LET r == [i \in 1..DigestLen |-> (message[i] + sk[i]) % 256]
    IN  [r |-> r,
         s |-> [i \in 1..DigestLen |-> (r[i] + message[DigestLen + 1 - i]) % 256]]

\* signature.serialize_der() in place of serialize_compact()
SerializeDer(sig) == <<48, 68, 2, 32>> \o sig.r \o <<2, 32>> \o sig.s

\* signature.serialize_compact(): r || s
SerializeCompact(sig) == sig.r \o sig.s

(***************************************************************************)
(* sign_price_data, lines 80-107.                                          *)
(***************************************************************************)
INTENT_SCOPE == 0

sign_price_data(signing_key, price, timestamp_ms) ==
    LET payload        == PriceUpdatePayload(price)
        intent_message == IntentMessage(INTENT_SCOPE, timestamp_ms, payload)
        message_bytes  == BcsToBytes(intent_message)
        hash           == Sha256Digest(message_bytes.val)
        message        == MessageFromDigestSlice(hash)
        signature      == SignEcdsa(message.val, signing_key)
    IN  IF ~message_bytes.ok THEN message_bytes
        ELSE IF ~message.ok THEN message
        ELSE Ok(HexEncode(SerializeCompact(signature)))

(***************************************************************************)
(* load_signing_key_from_file, lines 155-165.  A key file is               *)
(* [exists, bytes]; fs::read fails when the file cannot be read.           *)
(***************************************************************************)
FsRead(file) == IF file.exists THEN Ok(file.bytes) ELSE Err("io error")

\* the loader without its length check
load_signing_key_unchecked_length(file) ==
    LET key_bytes   == FsRead(file)
        signing_key == SecretKeyFromSlice(key_bytes.val)
    IN  IF ~key_bytes.ok THEN key_bytes
        ELSE IF ~signing_key.ok THEN signing_key
        ELSE Ok(signing_key.val)

load_signing_key_from_file(file) ==
    LET key_bytes   == FsRead(file)
        signing_key == SecretKeyFromSlice(key_bytes.val)
    IN  IF ~key_bytes.ok THEN key_bytes
        ELSE IF Len(key_bytes.val) # KeyLen
        THEN Err("Expected 32-byte secp256k1 private key")
        ELSE IF ~signing_key.ok THEN signing_key
        ELSE Ok(signing_key.val)

(***************************************************************************)
(* Bounds and inputs.                                                      *)
(***************************************************************************)
\* requests in flight at once
MaxReq == 2
\* largest number of process arguments (program name included)
MaxArgs == 3

Req == 1..MaxReq

KeyOne == [i \in 1..KeyLen |-> IF i = KeyLen THEN 1 ELSE 0]
KeyOrderMinusOne == [CURVE_ORDER EXCEPT ![KeyLen] = @ - 1]
KeyOrderPlusOne == [CURVE_ORDER EXCEPT ![KeyLen] = @ + 1]

\* what the key path may hold when the process starts
KeyFiles ==
    { [exists |-> FALSE, bytes |-> <<>>],
      [exists |-> TRUE, bytes |-> <<>>],
      [exists |-> TRUE, bytes |-> [i \in 1..(KeyLen - 1) |-> 1]],
      [exists |-> TRUE, bytes |-> [i \in 1..(KeyLen + 1) |-> 1]],
      [exists |-> TRUE, bytes |-> [i \in 1..KeyLen |-> 0]],
      [exists |-> TRUE, bytes |-> [i \in 1..KeyLen |-> 255]],
      [exists |-> TRUE, bytes |-> CURVE_ORDER],
      [exists |-> TRUE, bytes |-> KeyOrderPlusOne],
      [exists |-> TRUE, bytes |-> KeyOne],
      [exists |-> TRUE, bytes |-> KeyOrderMinusOne] }

\* f64 bit patterns of the readings the price source may return
F64_3_5          == <<0, 0, 0, 16396>>              \* 3.5
F64_1_234567891  == <<38475, 17096, 49354, 16371>>  \* 1.234567891
F64_1EM7         == <<44872, 39612, 55282, 15994>>  \* 0.0000001
F64_1EM6         == <<60813, 41141, 50935, 16048>>  \* 0.000001 = 9.99999999999999954748e-07
F64_NEG_1_5      == <<0, 0, 0, 49144>>              \* -1.5
F64_1_8E13       == <<60813, 41141, 50935, 17072>>  \* 18446744073709.551615...

UpstreamPrices == {F64_3_5, F64_1_234567891, F64_1EM7, F64_1EM6, F64_NEG_1_5, F64_1_8E13}

\* what `.send().await` may deliver: a body that parses to a price, or one
\* that does not parse as CoinGeckoResponse
UpstreamReplies ==
    {[kind |-> "garbage", usd |-> U64Zero]}
        \cup {[kind |-> "price", usd |-> p] : p \in UpstreamPrices}

TS_1700000000000 == <<26624, 53221, 395, 0>>

\* wall-clock readings in milliseconds since the epoch
ClockValues == {U64Zero, TS_1700000000000}

(***************************************************************************)
(* State.                                                                  *)
(***************************************************************************)
VARIABLES
    pc,         \* main's position: "start", "load", "bind", "serving", "exited"
    argc,       \* env::args().len()
    key_file,   \* the file at the key path
    exit_code,  \* the process's exit status, -1 while it runs
    main_err,   \* what the process wrote to stderr on its way out, "" if nothing
    state,      \* AppState; signing_key is <<>> before it is constructed
    listener,   \* "none" or "bound"
    req,        \* per connection slot: the handler's locals and its response
    enc         \* inputs and outputs of the encoder under SpecEnc

vars == <<pc, argc, key_file, exit_code, main_err, state, listener, req, enc>>
mainVars == <<pc, argc, key_file, exit_code, main_err, state, listener>>

NoBody == [kind |-> "none", text |-> <<>>, price |-> U64Zero, timestamp_ms |-> U64Zero]
NoReply == [kind |-> "none", usd |-> U64Zero]

IdleReq ==
    [route |-> "", pc |-> "idle", reply |-> NoReply, fetched |-> "no",
     price_usd |-> U64Zero, price |-> U64Zero, timestamp_ms |-> U64Zero,
     signed |-> "no", status |-> 0, body |-> NoBody,
     fetches |-> 0, clock_reads |-> 0, signs |-> 0]

EncIdle == [a |-> <<>>, b |-> <<>>, ea |-> <<>>, eb |-> <<>>]

Init ==
    /\ pc = "start"
    /\ argc \in 0..MaxArgs
    /\ key_file \in KeyFiles
    /\ exit_code = -1
    /\ main_err = ""
    /\ state = [signing_key |-> <<>>]
    /\ listener = "none"
    /\ req = [r \in Req |-> IdleReq]
    /\ enc = EncIdle

(***************************************************************************)
(* main, lines 168-210.                                                    *)
(***************************************************************************)
Exit(code, msg) ==
    /\ pc' = "exited"
    /\ exit_code' = code
    /\ main_err' = msg

\* lines 173-178; with no argument at all, args[0] in the usage message panics
CheckArgs ==
    /\ pc = "start"
    /\ IF argc # 2
       THEN (IF argc = 0 THEN Exit(101, "index out of bounds")
                         ELSE Exit(1, "Usage: <program> <path-to-secp256k1-key>"))
       ELSE pc' = "load" /\ UNCHANGED <<exit_code, main_err>>
    /\ UNCHANGED <<argc, key_file, state, listener, req, enc>>

\* main falling back to a built-in key when the key file does not load
LoadKeyOrDefault ==
    /\ pc = "load"
    /\ LET signing_key == load_signing_key_from_file(key_file)
       IN  state' = [signing_key |-> IF signing_key.ok THEN signing_key.val ELSE KeyOne]
    /\ pc' = "bind"
    /\ UNCHANGED <<argc, key_file, exit_code, main_err, listener, req, enc>>

\* lines 181-193: `?` returns the error from main, which exits with status 1
LoadKey ==
    /\ pc = "load"
    /\ LET signing_key == load_signing_key_from_file(key_file)
       IN  IF signing_key.ok
           THEN /\ state' = [signing_key |-> signing_key.val]
                /\ pc' = "bind"
                /\ UNCHANGED <<exit_code, main_err>>
           ELSE /\ Exit(1, signing_key.val)
                /\ UNCHANGED state
    /\ UNCHANGED <<argc, key_file, listener, req, enc>>

\* lines 206-207
BindOk ==
    /\ pc = "bind"
    /\ listener' = "bound"
    /\ pc' = "serving"
    /\ UNCHANGED <<argc, key_file, exit_code, main_err, state, req, enc>>

BindFail ==
    /\ pc = "bind"
    /\ Exit(1, "bind failed")
    /\ UNCHANGED <<argc, key_file, state, listener, req, enc>>

(***************************************************************************)
(* Handlers.  A request occupies a slot from its dispatch until its        *)
(* response is sent; the steps of get_signed_price on different slots      *)
(* interleave freely (tokio runs them as separate tasks).                  *)
(***************************************************************************)
Serving == pc = "serving" /\ listener = "bound"

Respond(r, status, body) ==
    [req[r] EXCEPT !.pc = "done", !.status = status, !.body = body]

ErrorBody(msg) == [NoBody EXCEPT !.kind = "error", !.text = <<msg>>]

\* health_check, lines 142-144
HealthCheck(r) ==
    /\ Serving
    /\ req[r].pc = "idle"
    /\ req' = [req EXCEPT ![r] =
                 [Respond(r, 200, [NoBody EXCEPT !.kind = "health", !.text = <<"ok">>])
                    EXCEPT !.route = "/health"]]
    /\ UNCHANGED <<mainVars, enc>>

\* get_public_key replacing the key in the shared state as it answers
GetPublicKeyRotating(r) ==
    /\ Serving
    /\ req[r].pc = "idle"
    /\ LET public_key == PublicKeyFromSecret(state.signing_key)
           pk_hex     == HexEncode(PublicKeySerialize(public_key))
       IN  req' = [req EXCEPT ![r] =
                     [Respond(r, 200, [NoBody EXCEPT !.kind = "public_key", !.text = pk_hex])
                        EXCEPT !.route = "/public-key"]]
    /\ state' = [signing_key |-> IF state.signing_key = KeyOne THEN KeyOrderMinusOne
                                                              ELSE KeyOne]
    /\ UNCHANGED <<pc, argc, key_file, exit_code, main_err, listener, enc>>

\* get_public_key, lines 146-153
GetPublicKey(r) ==
    /\ Serving
    /\ req[r].pc = "idle"
    /\ LET public_key == PublicKeyFromSecret(state.signing_key)
           pk_hex     == HexEncode(PublicKeySerialize(public_key))
       IN  req' = [req EXCEPT ![r] =
                     [Respond(r, 200, [NoBody EXCEPT !.kind = "public_key", !.text = pk_hex])
                        EXCEPT !.route = "/public-key"]]
    /\ UNCHANGED <<mainVars, enc>>

\* get_signed_price is entered and fetch_sui_price issues its request, lines 62-64
PriceStart(r) ==
    /\ Serving
    /\ req[r].pc = "idle"
    /\ req' = [req EXCEPT ![r].route = "/price", ![r].pc = "send",
                          ![r].fetches = @ + 1]
    /\ UNCHANGED <<mainVars, enc>>

\* a failed fetch answered 200 with default values
FetchFailedAsDefault(r) ==
    [Respond(r, 200, [NoBody EXCEPT !.kind = "signed"]) EXCEPT !.fetched = "err"]

FetchFailed(r) ==
    [Respond(r, 503, ErrorBody("Failed to fetch price")) EXCEPT !.fetched = "err"]

\* a failed send issued again instead of ending the request
FetchSendRetry(r) ==
    /\ req[r].pc = "send"
    /\ IF req[r].fetches < 2
       THEN req' = [req EXCEPT ![r].fetches = @ + 1]
       ELSE req' = [req EXCEPT ![r] = FetchFailed(r)]
    /\ UNCHANGED <<mainVars, enc>>

\* `.send().await?` fails (line 65), mapped to 503 at lines 115-118
FetchSendFail(r) ==
    /\ req[r].pc = "send"
    /\ req' = [req EXCEPT ![r] = FetchFailed(r)]
    /\ UNCHANGED <<mainVars, enc>>

\* `.send().await?` delivers a response
FetchSendOk(r, reply) ==
    /\ req[r].pc = "send"
    /\ req' = [req EXCEPT ![r].pc = "json", ![r].reply = reply]
    /\ UNCHANGED <<mainVars, enc>>

\* `.json::<CoinGeckoResponse>().await?`, lines 66-69 and 113-118
FetchJson(r) ==
    /\ req[r].pc = "json"
    /\ IF req[r].reply.kind = "price"
       THEN req' = [req EXCEPT ![r].pc = "fetched", ![r].fetched = "ok",
                               ![r].price_usd = req[r].reply.usd]
       ELSE req' = [req EXCEPT ![r] = FetchFailed(r)]
    /\ UNCHANGED <<mainVars, enc>>

\* the price quantized from whichever request's reading is at hand
QuantizeShared(r) ==
    /\ req[r].pc = "fetched"
    /\ \E q \in Req :
          /\ req[q].fetched = "ok"
          /\ req' = [req EXCEPT ![r].pc = "quantized",
                                ![r].price = Quantize(req[q].price_usd)]
    /\ UNCHANGED <<mainVars, enc>>

\* line 121
QuantizeStep(r) ==
    /\ req[r].pc = "fetched"
    /\ req' = [req EXCEPT ![r].pc = "quantized",
                          ![r].price = Quantize(req[r].price_usd)]
    /\ UNCHANGED <<mainVars, enc>>

\* line 124: current_timestamp_ms()
Timestamp(r, now) ==
    /\ req[r].pc = "quantized"
    /\ req' = [req EXCEPT ![r].pc = "stamped", ![r].timestamp_ms = now,
                          ![r].clock_reads = @ + 1]
    /\ UNCHANGED <<mainVars, enc>>

\* lines 129-139
SignAndRespond(r) ==
    /\ req[r].pc = "stamped"
    /\ LET signature == sign_price_data(state.signing_key, req[r].price,
                                        req[r].timestamp_ms)
           called    == [req EXCEPT ![r].signs = @ + 1,
                                    ![r].signed = IF signature.ok THEN "ok" ELSE "err"]
       IN  IF signature.ok
           THEN req' = [called EXCEPT ![r].pc = "done", ![r].status = 200,
                           ![r].body = [kind |-> "signed", text |-> signature.val,
                                        price |-> req[r].price,
                                        timestamp_ms |-> req[r].timestamp_ms]]
           ELSE req' = [called EXCEPT ![r].pc = "done", ![r].status = 500,
                           ![r].body = ErrorBody("Signing failed")]
    /\ UNCHANGED <<mainVars, enc>>

\* the response is sent and the handler's locals are dropped
Complete(r) ==
    /\ req[r].pc = "done"
    /\ req' = [req EXCEPT ![r] = IdleReq]
    /\ UNCHANGED <<mainVars, enc>>

Next ==
    \/ CheckArgs
    \/ LoadKey
    \/ BindOk
    \/ BindFail
    \/ \E r \in Req : HealthCheck(r)
    \/ \E r \in Req : GetPublicKey(r)
    \/ \E r \in Req : PriceStart(r)
    \/ \E r \in Req : FetchSendFail(r)
    \/ \E r \in Req, reply \in UpstreamReplies : FetchSendOk(r, reply)
    \/ \E r \in Req : FetchJson(r)
    \/ \E r \in Req : QuantizeStep(r)
    \/ \E r \in Req, now \in ClockValues : Timestamp(r, now)
    \/ \E r \in Req : SignAndRespond(r)
    \/ \E r \in Req : Complete(r)

Spec == Init /\ [][Next]_vars

(***************************************************************************)
(* The encoder on its own: two envelopes drawn from the whole typed        *)
(* schema (any tag, any two u64), each encoded by bcs::to_bytes.           *)
(***************************************************************************)
IntentSamples == {0, 1, 255}

U64Samples == {U64Zero, <<1, 0, 0, 0>>, <<256, 0, 0, 0>>, <<0, 0, 0, 1>>,
               TS_1700000000000, U64Max}

Envelopes ==
    {IntentMessage(i, t, PriceUpdatePayload(p)) :
        i \in IntentSamples, t \in U64Samples, p \in U64Samples}

InitEnc ==
    /\ pc = "start"
    /\ argc = 2
    /\ key_file = [exists |-> TRUE, bytes |-> KeyOne]
    /\ exit_code = -1
    /\ main_err = ""
    /\ state = [signing_key |-> <<>>]
    /\ listener = "none"
    /\ req = [r \in Req |-> IdleReq]
    /\ \E a \in Envelopes, b \in Envelopes :
          enc = [a |-> a, b |-> b, ea |-> <<>>, eb |-> <<>>]

EncodeA ==
    /\ enc.ea = <<>>
    /\ enc' = [enc EXCEPT !.ea = BcsToBytes(enc.a).val]
    /\ UNCHANGED <<mainVars, req>>

EncodeB ==
    /\ enc.eb = <<>>
    /\ enc' = [enc EXCEPT !.eb = BcsToBytes(enc.b).val]
    /\ UNCHANGED <<mainVars, req>>

NextEnc == EncodeA \/ EncodeB

SpecEnc == InitEnc /\ [][NextEnc]_vars

(***************************************************************************)
(* Properties.                                                             *)
(***************************************************************************)
PriceReq(r) == req[r].route = "/price"

\* the scalar range the key contract names: 0 < value < group order
ScalarInRange(bytes) ==
    /\ \E i \in 1..Len(bytes) : bytes[i] # 0
    /\ LessBE(bytes, CURVE_ORDER)

KeyFileValid ==
    /\ key_file.exists
    /\ Len(key_file.bytes) = KeyLen
    /\ ScalarInRange(key_file.bytes)

\* the two load errors, as the error values main.rs produces for them
InvalidKeyLength == "Expected 32-byte secp256k1 private key"
InvalidKeyValue == "InvalidSecretKey"

KeyLoadAttempted == argc = 2 /\ pc \in {"bind", "serving", "exited"}

\* C1: once load_signing_key_from_file has run, a key was constructed iff the
\* file held exactly 32 bytes forming a scalar in range, and it is those
\* bytes; a file of another length was rejected with InvalidKeyLength, a
\* 32-byte file out of range with InvalidKeyValue, and no key was
\* constructed in either case.
C1_KeyLoadValidation ==
    KeyLoadAttempted =>
        /\ (state.signing_key # <<>>) <=> KeyFileValid
        /\ KeyFileValid => state.signing_key = key_file.bytes
        /\ (key_file.exists /\ Len(key_file.bytes) # KeyLen) =>
              /\ main_err = InvalidKeyLength
              /\ state.signing_key = <<>>
        /\ (key_file.exists /\ Len(key_file.bytes) = KeyLen
                /\ ~ScalarInRange(key_file.bytes)) =>
              /\ main_err = InvalidKeyValue
              /\ state.signing_key = <<>>

\* a 32-byte all-zero key file was rejected
C1_Witness ==
    /\ KeyLoadAttempted
    /\ key_file.exists
    /\ Len(key_file.bytes) = KeyLen
    /\ \A i \in 1..KeyLen : key_file.bytes[i] = 0
    /\ pc = "exited"

\* C2: the listener is bound and requests are handled only when exactly one
\* positional argument was given and the key file loaded, and then with the
\* file's key; with a wrong argument count or a key-load failure the process
\* never binds, never handles a request, never holds a key, and its exit
\* status is non-zero.
C2_ServeOnlyAfterKeyLoaded ==
    /\ (listener = "bound" \/ pc = "serving" \/ \E r \in Req : req[r].pc # "idle") =>
          /\ argc = 2
          /\ KeyFileValid
          /\ state.signing_key = key_file.bytes
    /\ (argc # 2 \/ ~KeyFileValid) =>
          /\ listener = "none"
          /\ pc # "serving"
          /\ \A r \in Req : req[r] = IdleReq
          /\ state.signing_key = <<>>
          /\ pc = "exited" => exit_code > 0

\* the process exited on a key-load failure
C2_Witness ==
    /\ pc = "exited"
    /\ argc = 2
    /\ ~KeyFileValid
    /\ exit_code = 1

F64NegativeOrNonFinite(w) ==
    LET x == F64Unpack(w)
    IN  x.cls # "fin" \/ (x.neg /\ ~IsZeroBig(x.sig))

\* C4: a request whose fetched price is negative, NaN or infinite builds no
\* envelope, signs nothing and returns no 200 response.
C4_NegativeRejected ==
    \A r \in Req :
        (PriceReq(r) /\ req[r].fetched = "ok"
            /\ F64NegativeOrNonFinite(req[r].price_usd)) =>
                /\ req[r].signs = 0
                /\ req[r].status # 200

\* 10^6 as a Big number
Million == <<64, 66, 15>>

\* floor(p * 10^6) in exact arithmetic, for a finite non-negative f64 p
ExactScaledFloor(w) ==
    LET x == F64Unpack(w)
        m == MulBig(x.sig, Million)
    IN  IF x.e >= 0 THEN ShlBig(m, x.e) ELSE ShrBig(m, -x.e)

ScaledFitsU64(w) ==
    LET x == F64Unpack(w)
        m == MulBig(x.sig, Million)
    IN  BitLenBig(m) + x.e <= 64

\* C5: for a non-negative finite reading whose scaled value fits in 64 bits,
\* the quantized price is floor(p * 10^6).
C5_QuantizeIsFloor ==
    \A r \in Req :
        (PriceReq(r) /\ req[r].pc \in {"quantized", "stamped", "done"}
            /\ req[r].fetched = "ok"
            /\ ~F64NegativeOrNonFinite(req[r].price_usd)
            /\ ScaledFitsU64(req[r].price_usd)) =>
                req[r].price = BigToWords(ExactScaledFloor(req[r].price_usd))

\* a u64 from eight bytes, least significant first
U64FromLeBytes(b) == [k \in 1..4 |-> b[2 * k - 1] + 256 * b[2 * k]]

EnvelopeLayout(m, bytes) ==
    /\ Len(bytes) = 17
    /\ bytes[1] = m.intent
    /\ U64FromLeBytes(SubSeq(bytes, 2, 9)) = m.timestamp_ms
    /\ U64FromLeBytes(SubSeq(bytes, 10, 17)) = m.data.price

\* C6: the encoding of an envelope is 17 bytes: the tag byte, the timestamp
\* in 8 bytes, the price in 8 bytes, in that order; and two envelopes have
\* the same encoding iff they agree in tag, timestamp and price.
C6_EncodingFixedInjective ==
    /\ enc.ea # <<>> => EnvelopeLayout(enc.a, enc.ea)
    /\ enc.eb # <<>> => EnvelopeLayout(enc.b, enc.eb)
    /\ (enc.ea # <<>> /\ enc.eb # <<>>) => ((enc.ea = enc.eb) <=> (enc.a = enc.b))

\* two encoded envelopes that differ in the tag alone
C6_Witness ==
    /\ enc.ea # <<>>
    /\ enc.eb # <<>>
    /\ enc.a.intent # enc.b.intent
    /\ enc.a.timestamp_ms = enc.b.timestamp_ms
    /\ enc.a.data = enc.b.data

HexChars == {HexDigits[i] : i \in 1..16}

HexValue == [c \in HexChars |-> CHOOSE v \in 0..15 : HexDigits[v + 1] = c]

IsHex(text) == \A i \in 1..Len(text) : text[i] \in HexChars

HexDecode(text) ==
    [i \in 1..(Len(text) \div 2) |->
        16 * HexValue[text[2 * i - 1]] + HexValue[text[2 * i]]]

\* whether a compact signature verifies over a digest under a public key
VerifyEcdsa(message, compact, pk) ==
    /\ Len(compact) = 2 * DigestLen
    /\ Len(message) = DigestLen
    /\ \A i \in 1..DigestLen :
          /\ pk[i] = (3 * ((compact[i] + 256 - message[i]) % 256) + 7) % 256
          /\ compact[DigestLen + i] = (compact[i] + message[DigestLen + 1 - i]) % 256

EnvelopeDigest(price, timestamp_ms) ==
    Sha256Digest(BcsToBytes(IntentMessage(0, timestamp_ms, PriceUpdatePayload(price))).val)

\* C7: every call of sign_price_data with the loaded key succeeds, and its
\* result is 128 hex characters whose 64 bytes verify, under the public key
\* derived from that key, over the 32-byte digest of the encoded envelope.
C7_SignSucceedsAndVerifies ==
    \A r \in Req :
        req[r].signs > 0 =>
            /\ req[r].signed = "ok"
            /\ req[r].status = 200
            /\ Len(req[r].body.text) = 128
            /\ IsHex(req[r].body.text)
            /\ Len(EnvelopeDigest(req[r].price, req[r].timestamp_ms)) = 32
            /\ VerifyEcdsa(EnvelopeDigest(req[r].price, req[r].timestamp_ms),
                           HexDecode(req[r].body.text),
                           PublicKeyFromSecret(state.signing_key))

\* price 3500000 at timestamp 1700000000000 was signed
C7_Witness ==
    \E r \in Req :
        /\ req[r].signs > 0
        /\ req[r].price = <<26592, 53, 0, 0>>
        /\ req[r].timestamp_ms = TS_1700000000000

LoadedPublicKeyHex == HexEncode(PublicKeySerialize(PublicKeyFromSecret(key_file.bytes)))

\* C8: while the server runs, the key in the shared state is the key loaded
\* from the file: every /public-key response is the hex of that key's
\* public key and every signature returned verifies under it.
C8_KeyNeverChanges ==
    pc = "serving" =>
        /\ state.signing_key = key_file.bytes
        /\ \A r \in Req :
              (req[r].route = "/public-key" /\ req[r].pc = "done") =>
                  req[r].body.text = LoadedPublicKeyHex
        /\ \A r \in Req :
              (PriceReq(r) /\ req[r].status = 200) =>
                  VerifyEcdsa(EnvelopeDigest(req[r].body.price, req[r].body.timestamp_ms),
                              HexDecode(req[r].body.text),
                              PublicKeyFromSecret(key_file.bytes))

\* a /public-key response and a signed price are out at the same time
C8_Witness ==
    \E r, q \in Req :
        /\ req[r].route = "/public-key" /\ req[r].pc = "done"
        /\ PriceReq(q) /\ req[q].status = 200

\* C9: every 200 response carries the quantization of the value its own
\* request fetched, the timestamp its own request read, and the signature
\* of the envelope (0, that timestamp, that price).
C9_RequestsIndependent ==
    \A r \in Req :
        (PriceReq(r) /\ req[r].status = 200) =>
            /\ req[r].price_usd = req[r].reply.usd
            /\ req[r].body.price = Quantize(req[r].reply.usd)
            /\ req[r].body.timestamp_ms = req[r].timestamp_ms
            /\ req[r].body.text =
                  HexEncode(SerializeCompact(
                      SignEcdsa(EnvelopeDigest(req[r].body.price, req[r].body.timestamp_ms),
                                state.signing_key)))

\* two 200 responses with different prices and different timestamps
C9_Witness ==
    \E r, q \in Req :
        /\ PriceReq(r) /\ req[r].status = 200
        /\ PriceReq(q) /\ req[q].status = 200
        /\ req[r].body.price # req[q].body.price
        /\ req[r].body.timestamp_ms # req[q].body.timestamp_ms

\* C10: a /price request issues exactly one fetch, reads the clock at most
\* once and only after the fetch succeeded and the price was quantized, signs
\* at most once and only after the clock was read; a request whose fetch
\* failed has ended with no clock read and no signature.
C10_StepsOnceInOrder ==
    \A r \in Req :
        /\ req[r].fetches <= 1
        /\ req[r].clock_reads <= 1
        /\ req[r].signs <= 1
        /\ (PriceReq(r) /\ req[r].pc # "idle") => req[r].fetches = 1
        /\ req[r].pc \in {"send", "json"} => req[r].fetched = "no"
        /\ req[r].pc \in {"send", "json", "fetched", "quantized"} =>
              req[r].clock_reads = 0 /\ req[r].signs = 0
        /\ req[r].clock_reads > 0 =>
              req[r].fetched = "ok" /\ req[r].pc \in {"stamped", "done"}
        /\ req[r].pc = "stamped" => req[r].signs = 0
        /\ req[r].signs > 0 => req[r].clock_reads = 1 /\ req[r].pc = "done"
        /\ req[r].fetched = "err" =>
              /\ req[r].pc = "done"
              /\ req[r].status = 503
              /\ req[r].clock_reads = 0
              /\ req[r].signs = 0

\* one request ended on a failed fetch, another went through to signing
C10_Witness ==
    \E r, q \in Req :
        /\ req[r].fetched = "err" /\ req[r].pc = "done"
        /\ req[q].signs = 1 /\ req[q].pc = "done"

====
